---- MODULE Spec2Model ----
(***************************************************************************)
(* A model of llm-mod-rs (src/src/main.rs): a Discord moderation bot that  *)
(* asks a language model whether a message is a job post and reports the   *)
(* violating ones to a per-guild channel.                                  *)
(*                                                                         *)
(* Five specifications share the variables:                                *)
(*   Spec        run_bot and the concurrent Handler::message invocations   *)
(*   FairSpec    Spec with the scheduling fairness of the async runtime    *)
(*   SpecEval    evaluate_message applied to one model response            *)
(*   SpecSummary the summary truncation applied to one message text        *)
(*   SpecTests   run_tests, the offline harness, on generated datasets     *)
(*                                                                         *)
(* 64-bit identifiers are written as strings of their decimal digits: the  *)
(* code only compares them for equality.                                   *)
(***************************************************************************)
EXTENDS Integers, Sequences, FiniteSets, TLC

VARIABLES
    boot,       \* position of run_bot
    events,     \* one Handler::message invocation per inbound message
    http,       \* send_message calls issued to the Discord HTTP API
    evalIn,     \* SpecEval: the arguments of one evaluate_message call
    evalOut,    \* SpecEval: its outcome
    text,       \* SpecSummary: a message content
    summary,    \* SpecSummary: the content_summary built from it
    tests       \* SpecTests: the locals of run_tests

vars == <<boot, events, http, evalIn, evalOut, text, summary, tests>>

-----------------------------------------------------------------------------
(* Bounds of the model *)

\* number of inbound message events
NumEvents == 2
\* code points that follow the padding of a generated message text
MaxTail == 3
\* cases of a generated dataset of the offline harness
MaxCases == 3
\* members of a generated JSON object, elements of a generated JSON array
MaxMembers == 2

-----------------------------------------------------------------------------
(* Program constants *)

SELF_ID == "1314997214866571284"
\* the argument of .take(512)
SummaryLimit == 512
\* set_sampler_max_len(100)
SamplerMaxLen == 100
\* set_sampler_temperature(0.)
SamplerTemperature == 0

GUILD_TESTING == "145457131640848384"
GUILD_PROGDISC == "238666723824238602"
CHANNEL_TESTING == "335451227028717568"
CHANNEL_PROGDISC == "1315930244682743839"

\* Option<T>
None == [some |-> FALSE, val |-> << >>]
Some(v) == [some |-> TRUE, val |-> v]

-----------------------------------------------------------------------------
(* JSON texts, as sequences of lexical tokens *)

KeyVR == "\"violates_rules\""
KeyX == "\"x\""
ScalarTokens == {"true", "false", "null", "1", KeyVR, KeyX}
StringTokens == {KeyVR, KeyX}

RECURSIVE SkipValue(_, _)
RECURSIVE SkipElems(_, _, _)
RECURSIVE SkipMembers(_, _, _)

\* serde_json's ignore_value (the IgnoredAny a derived visitor uses for an
\* unknown field): the index after the well-formed value at t[i], 0 on error
SkipValue(t, i) ==
    IF i > Len(t) THEN 0
    ELSE IF t[i] \in ScalarTokens THEN i + 1
    ELSE IF t[i] = "[" THEN SkipElems(t, i + 1, TRUE)
    ELSE IF t[i] = "{" THEN SkipMembers(t, i + 1, TRUE)
    ELSE 0

SkipElems(t, i, first) ==
    IF i > Len(t) THEN 0
    ELSE IF first /\ t[i] = "]" THEN i + 1
    ELSE LET j == SkipValue(t, i) IN
         IF j = 0 \/ j > Len(t) THEN 0
         ELSE IF t[j] = "]" THEN j + 1
         ELSE IF t[j] = "," THEN SkipElems(t, j + 1, FALSE)
         ELSE 0

SkipMembers(t, i, first) ==
    IF i > Len(t) THEN 0
    ELSE IF first /\ t[i] = "}" THEN i + 1
    ELSE IF t[i] \notin StringTokens THEN 0
    ELSE IF i + 1 > Len(t) \/ t[i + 1] # ":" THEN 0
    ELSE LET j == SkipValue(t, i + 2) IN
         IF j = 0 \/ j > Len(t) THEN 0
         ELSE IF t[j] = "}" THEN j + 1
         ELSE IF t[j] = "," THEN SkipMembers(t, j + 1, FALSE)
         ELSE 0

ParseErr(e) == [ok |-> FALSE, violates_rules |-> FALSE, next |-> 0, err |-> e]
ParseOk(b, n) == [ok |-> TRUE, violates_rules |-> b, next |-> n, err |-> ""]

\* the end of the derived visit_map: the field violates_rules must have been seen
FinishMap(vr, n) ==
    IF vr = "unset" THEN ParseErr("missing field") ELSE ParseOk(vr = "true", n)

RECURSIVE VisitMap(_, _, _, _)
\* #[derive(Deserialize)] struct Evaluation, object form: the members from t[i]
\* on; vr is the field's value so far ("unset", "true", "false")
VisitMap(t, i, first, vr) ==
    IF i > Len(t) THEN ParseErr("EOF while parsing an object")
    ELSE IF first /\ t[i] = "}" THEN FinishMap(vr, i + 1)
    ELSE IF t[i] \notin StringTokens THEN ParseErr("key must be a string")
    ELSE IF i + 1 > Len(t) \/ t[i + 1] # ":" THEN ParseErr("expected colon")
    ELSE IF t[i] = KeyVR /\ vr # "unset" THEN ParseErr("duplicate field")
    ELSE IF t[i] = KeyVR /\ (i + 2 > Len(t) \/ t[i + 2] \notin {"true", "false"})
         THEN ParseErr("invalid type, expected a boolean")
    ELSE LET j == IF t[i] = KeyVR THEN i + 3 ELSE SkipValue(t, i + 2)
             v == IF t[i] = KeyVR THEN t[i + 2] ELSE vr
         IN  IF j = 0 THEN ParseErr("syntax error in ignored value")
             ELSE IF j > Len(t) THEN ParseErr("EOF while parsing an object")
             ELSE IF t[j] = "}" THEN FinishMap(v, j + 1)
             ELSE IF t[j] = "," THEN VisitMap(t, j + 1, FALSE, v)
             ELSE ParseErr("expected comma or closing brace")

\* #[derive(Deserialize)] struct Evaluation, array form: serde_json hands a
\* JSON array to the derived visit_seq, which reads the fields in order
VisitSeq(t) ==
    IF Len(t) < 2 THEN ParseErr("EOF while parsing a list")
    ELSE IF t[2] = "]" THEN ParseErr("invalid length 0")
    ELSE IF t[2] \notin {"true", "false"} THEN ParseErr("invalid type, expected a boolean")
    ELSE IF Len(t) < 3 THEN ParseErr("EOF while parsing a list")
    ELSE IF t[3] # "]" THEN ParseErr("trailing characters in list")
    ELSE ParseOk(t[2] = "true", 4)

\* serde_json::from_str::<Evaluation>: the value, then nothing but the end
from_str_Evaluation(t) ==
    IF Len(t) = 0 THEN ParseErr("EOF while parsing a value")
    ELSE LET r == IF t[1] = "{" THEN VisitMap(t, 2, TRUE, "unset")
                  ELSE IF t[1] = "[" THEN VisitSeq(t)
                  ELSE ParseErr("invalid type, expected struct Evaluation")
         IN  IF r.ok /\ r.next # Len(t) + 1 THEN ParseErr("trailing characters") ELSE r

-----------------------------------------------------------------------------
(* evaluate_message *)

\* a value formatted into a log entry: what it is, and the value
Arg(what, val) == [what |-> what, val |-> val]

LogEntry(level, message, args) == [level |-> level, message |-> message, args |-> args]

\* the system instructions (the source's line continuations join the sentences)
SystemPrompt ==
    "You are a moderator for a Discord community.In this community users aren't allowed send messages containing job posts.Users can't list their skills to attract recruiters.You will be provided messages to evaluate whether user breaks these rules and you will respond true if it breaks rules, false if it doesn't.Don't try to make indirect connections to rules."

\* RequestBuilder::new()...add_message(User, content)
BuildRequest(content) ==
    [ temperature |-> SamplerTemperature,
      max_len |-> SamplerMaxLen,
      constraint |-> [ type |-> "object",
                       properties |-> {<<"violates_rules", "boolean">>},
                       required |-> {"violates_rules"},
                       additionalProperties |-> FALSE ],
      messages |-> << [role |-> "System", content |-> SystemPrompt],
                      [role |-> "User", content |-> content] >> ]

Return(b, log) == [kind |-> "return", value |-> b, log |-> log]
Panic(log) == [kind |-> "panic", value |-> FALSE, log |-> log]

\* a faulty variant of evaluate_message: response.choices[0] in place of .first()
evaluate_message_indexing(response, content) ==
    IF ~response.ok
    THEN Return(FALSE, << LogEntry("error", "failed to run llm", <<Arg("err", response.err)>>) >>)
    ELSE IF Len(response.choices) = 0
    THEN Panic(<< >>)
    ELSE LET choice == response.choices[1] IN
         IF ~choice.content.some
         THEN Return(FALSE, << LogEntry("error", "llm returned choice without content", << >>) >>)
         ELSE LET evaluation == from_str_Evaluation(choice.content.val) IN
              IF ~evaluation.ok
              THEN Return(FALSE, << LogEntry("error", "failed to parse llm response content",
                                             <<Arg("content", content), Arg("err", evaluation.err)>>) >>)
              ELSE Return(evaluation.violates_rules, << >>)

\* a faulty variant of evaluate_message: a parse failure is taken for a
\* negative verdict without a word (unwrap_or on the parsed value)
evaluate_message_silent_parse(response, content) ==
    IF ~response.ok
    THEN Return(FALSE, << LogEntry("error", "failed to run llm", <<Arg("err", response.err)>>) >>)
    ELSE IF Len(response.choices) = 0
    THEN Return(FALSE, << LogEntry("error", "llm returned zero choices", << >>) >>)
    ELSE LET choice == response.choices[1] IN
         IF ~choice.content.some
         THEN Return(FALSE, << LogEntry("error", "llm returned choice without content", << >>) >>)
         ELSE LET evaluation == from_str_Evaluation(choice.content.val) IN
              IF ~evaluation.ok
              THEN Return(FALSE, << >>)
              ELSE Return(evaluation.violates_rules, << >>)

\* a faulty variant of evaluate_message: the verdict of any choice that
\* parses counts (choices.iter().any(..) in place of choices.first())
evaluate_message_any_choice(response, content) ==
    IF ~response.ok
    THEN Return(FALSE, << LogEntry("error", "failed to run llm", <<Arg("err", response.err)>>) >>)
    ELSE IF Len(response.choices) = 0
    THEN Return(FALSE, << LogEntry("error", "llm returned zero choices", << >>) >>)
    ELSE IF \E i \in 1..Len(response.choices) :
                /\ response.choices[i].content.some
                /\ from_str_Evaluation(response.choices[i].content.val).ok
                /\ from_str_Evaluation(response.choices[i].content.val).violates_rules
    THEN Return(TRUE, << >>)
    ELSE LET choice == response.choices[1] IN
         IF ~choice.content.some
         THEN Return(FALSE, << LogEntry("error", "llm returned choice without content", << >>) >>)
         ELSE LET evaluation == from_str_Evaluation(choice.content.val) IN
              IF ~evaluation.ok
              THEN Return(FALSE, << LogEntry("error", "failed to parse llm response content",
                                             <<Arg("content", content), Arg("err", evaluation.err)>>) >>)
              ELSE Return(evaluation.violates_rules, << >>)

\* evaluate_message, from the return of model.send_chat_request on
evaluate_message(response, content) ==
    IF ~response.ok
    THEN Return(FALSE, << LogEntry("error", "failed to run llm", <<Arg("err", response.err)>>) >>)
    ELSE IF Len(response.choices) = 0
    THEN Return(FALSE, << LogEntry("error", "llm returned zero choices", << >>) >>)
    ELSE LET choice == response.choices[1] IN
         IF ~choice.content.some
         THEN Return(FALSE, << LogEntry("error", "llm returned choice without content", << >>) >>)
         ELSE LET evaluation == from_str_Evaluation(choice.content.val) IN
              IF ~evaluation.ok
              THEN Return(FALSE, << LogEntry("error", "failed to parse llm response content",
                                             <<Arg("content", content), Arg("err", evaluation.err)>>) >>)
              ELSE Return(evaluation.violates_rules, << >>)

-----------------------------------------------------------------------------
(* The summary: graphemes(content, true).take(512).collect::<String>() *)

\* Grapheme_Cluster_Break property of the model's code points
GCB(c) ==
    CASE c = "m" -> "Extend"
      [] c = "z" -> "ZWJ"
      [] c = "e" -> "ExtPict"
      [] c = "r" -> "RI"
      [] OTHER -> "Other"

\* the number of regional indicators that end at s[i]
RIRun(s, i) ==
    LET nonRI == {j \in 1..i : GCB(s[j]) # "RI"} IN
    IF nonRI = {} THEN i ELSE i - (CHOOSE j \in nonRI : \A k \in nonRI : k <= j)

\* UAX #29 extended grapheme cluster boundary before s[i], i > 1:
\* GB9 (x Extend, x ZWJ), GB11 (ExtPict Extend* ZWJ x ExtPict),
\* GB12/13 (pairs of regional indicators), GB999 otherwise; the rules for
\* controls, Hangul, Prepend and SpacingMark have no code point in the model
BreakBefore(s, i) ==
    IF GCB(s[i]) \in {"Extend", "ZWJ"} THEN FALSE
    ELSE IF /\ GCB(s[i]) = "ExtPict"
            /\ GCB(s[i - 1]) = "ZWJ"
            /\ \E j \in 1..(i - 2) :
                   /\ GCB(s[j]) = "ExtPict"
                   /\ \A k \in (j + 1)..(i - 2) : GCB(s[k]) = "Extend"
         THEN FALSE
    ELSE IF GCB(s[i]) = "RI" /\ GCB(s[i - 1]) = "RI" /\ RIRun(s, i - 1) % 2 = 1 THEN FALSE
    ELSE TRUE

RECURSIVE Clusters(_, _, _)
\* the grapheme clusters of s[lo..hi], by halving (the clusters of the halves,
\* joined where the middle is no boundary)
Clusters(s, lo, hi) ==
    IF lo > hi THEN << >>
    ELSE IF lo = hi THEN << <<s[lo]>> >>
    ELSE LET mid == (lo + hi) \div 2
             l == Clusters(s, lo, mid)
             r == Clusters(s, mid + 1, hi)
         IN  IF BreakBefore(s, mid + 1) THEN l \o r
             ELSE SubSeq(l, 1, Len(l) - 1) \o << l[Len(l)] \o r[1] >> \o Tail(r)

\* UnicodeSegmentation::graphemes(s, true)
graphemes(s) == Clusters(s, 1, Len(s))

\* Iterator::take
take(g, n) == SubSeq(g, 1, IF Len(g) < n THEN Len(g) ELSE n)

RECURSIVE Concat(_, _, _)
Concat(g, lo, hi) ==
    IF lo > hi THEN << >>
    ELSE IF lo = hi THEN g[lo]
    ELSE LET mid == (lo + hi) \div 2 IN Concat(g, lo, mid) \o Concat(g, mid + 1, hi)

\* Iterator::collect::<String>
collect(g) == Concat(g, 1, Len(g))

\* a faulty variant of content_summary: the first 512 code points (chars().take(512))
content_summary_chars(content) == take(content, SummaryLimit)

content_summary(content) == collect(take(graphemes(content), SummaryLimit))

-----------------------------------------------------------------------------
(* Handler::message *)

Message(id, guild_id, content, bot, author_id) ==
    [id |-> id, guild_id |-> guild_id, content |-> content, bot |-> bot,
     author_id |-> author_id]

NoMessage == Message(0, None, << >>, FALSE, "")

\* an invocation that has not started: no message delivered yet
IdleEvent ==
    [ pc |-> "idle", msg |-> NoMessage, hung |-> FALSE, response |-> None,
      violates_rules |-> FALSE, evalCalls |-> 0, sendCalls |-> 0,
      sendResult |-> "none", log |-> << >> ]

\* Message::link: the permalink names the guild and the message
link(msg) == <<"https://discord.com/channels", msg.guild_id.val, msg.id>>

\* a faulty variant of report_channel_id: the two destinations swapped
report_channel_id_swapped(guild_id) ==
    CASE guild_id = GUILD_TESTING -> Some(CHANNEL_PROGDISC)
      [] guild_id = GUILD_PROGDISC -> Some(CHANNEL_TESTING)
      [] OTHER -> None

\* match guild_id { ... _ => return }
report_channel_id(guild_id) ==
    CASE guild_id = GUILD_TESTING -> Some(CHANNEL_TESTING)
      [] guild_id = GUILD_PROGDISC -> Some(CHANNEL_PROGDISC)
      [] OTHER -> None

\* a faulty variant of is_noise: the bot flag is not looked at
is_noise_without_bot(msg) == msg.content = << >> \/ msg.author_id = SELF_ID

\* msg.content.is_empty() || msg.author.bot || msg.author.id.get() == SELF_ID
is_noise(msg) == msg.content = << >> \/ msg.bot \/ msg.author_id = SELF_ID

\* Handler::message from its start to the await of evaluate_message, whose
\* model call either returns later or (hung) never does
message_begin(msg, hung) ==
    LET received == LogEntry("info", "received message event", << >>)
        ev == [IdleEvent EXCEPT !.msg = msg]
    IN  IF ~msg.guild_id.some
        THEN [ev EXCEPT !.pc = "done",
                        !.log = << received,
                                   LogEntry("warn", "received message event with no guild id", <<Arg("msg", msg)>>) >>]
        ELSE IF is_noise(msg)
        THEN [ev EXCEPT !.pc = "done",
                        !.log = << received,
                                   LogEntry("info", "message is likely from a bot, skipping...", << >>) >>]
        ELSE IF ~report_channel_id(msg.guild_id.val).some
        THEN [ev EXCEPT !.pc = "done", !.log = <<received>>]
        ELSE [ev EXCEPT !.pc = "evaluating", !.hung = hung, !.evalCalls = 1,
                        !.log = <<received>>]

\* a faulty variant of should_report: the verdict is not looked at
should_report_always(violates_rules) == TRUE

\* if violates_rules { ... }
should_report(violates_rules) == violates_rules

\* Handler::message from the return of evaluate_message's model call to the
\* await of send_message, or to the end when there is nothing to report
message_after_evaluate(ev, response) ==
    LET r == evaluate_message(response, ev.msg.content) IN
    IF r.kind = "panic"
    THEN [ev EXCEPT !.pc = "panicked", !.response = Some(response), !.log = @ \o r.log]
    ELSE IF should_report(r.value)
    THEN [ev EXCEPT !.pc = "sending", !.response = Some(response),
                    !.violates_rules = r.value, !.sendCalls = @ + 1, !.log = @ \o r.log]
    ELSE [ev EXCEPT !.pc = "done", !.response = Some(response),
                    !.violates_rules = r.value, !.log = @ \o r.log]

\* a faulty variant of message_after_send: a failed delivery is tried again
message_after_send_retry(ev, ok) ==
    IF ok
    THEN [ev EXCEPT !.pc = "done", !.sendResult = "ok"]
    ELSE [ev EXCEPT !.pc = IF ev.sendCalls < 2 THEN "sending" ELSE "done",
                    !.sendCalls = IF ev.sendCalls < 2 THEN @ + 1 ELSE @,
                    !.sendResult = "err",
                    !.log = Append(@, LogEntry("error", "failed to report", <<Arg("err", "err")>>))]

\* Handler::message from the return of send_message to its end
message_after_send(ev, ok) ==
    IF ok
    THEN [ev EXCEPT !.pc = "done", !.sendResult = "ok"]
    ELSE [ev EXCEPT !.pc = "done", !.sendResult = "err",
                    !.log = Append(@, LogEntry("error", "failed to report", <<Arg("err", "err")>>))]

\* CreateMessage::new().embed(...) sent to report_channel; the footer (the
\* elapsed time of the classification) is left out
create_message(msg) ==
    [ channel |-> report_channel_id(msg.guild_id.val).val,
      title |-> "found violating message",
      summary |-> content_summary(msg.content),
      link |-> link(msg) ]

\* the send_message call an invocation suspended at its await has issued
Issued(e, ev) ==
    IF ev.pc = "sending"
    THEN {[by |-> e, attempt |-> ev.sendCalls, report |-> create_message(ev.msg)]}
    ELSE {}

\* a faulty variant of resume_evaluate: a failed model call ends every classification in flight
resume_evaluate_shared(evs, e, response) ==
    [f \in DOMAIN evs |->
        IF f = e THEN message_after_evaluate(evs[e], response)
        ELSE IF ~response.ok /\ evs[f].pc = "evaluating"
        THEN [evs[f] EXCEPT !.pc = "done"]
        ELSE evs[f]]

\* a faulty variant of resume_evaluate: a handler that remembers what it
\* reported and reports a text only once
resume_evaluate_dedup(evs, e, response) ==
    LET ev == message_after_evaluate(evs[e], response) IN
    [evs EXCEPT ![e] =
        IF /\ ev.pc = "sending"
           /\ \E f \in DOMAIN evs :
                  f # e /\ evs[f].sendCalls > 0 /\ evs[f].msg.content = ev.msg.content
        THEN [ev EXCEPT !.pc = "done", !.sendCalls = 0]
        ELSE ev]

\* the runtime resumes the one task whose model call returned; the tasks
\* share only &self.model
resume_evaluate(evs, e, response) ==
    [evs EXCEPT ![e] = message_after_evaluate(evs[e], response)]

\* a faulty variant of model_call_returns: the classifier serves one call at a time, in order
model_call_returns_serial(evs, e) ==
    /\ evs[e].pc = "evaluating"
    /\ ~evs[e].hung
    /\ \A f \in DOMAIN evs : f < e => evs[f].pc # "evaluating"

\* evaluate_message(&self.model, &msg.content).await is ready: the call of this
\* invocation has returned (a hung call never does)
model_call_returns(evs, e) ==
    /\ evs[e].pc = "evaluating"
    /\ ~evs[e].hung

-----------------------------------------------------------------------------
(* run_bot *)

BootStart == [pc |-> "generate_model", model |-> FALSE, token |-> FALSE]

\* let model = generate_model().await?;
run_bot_model(b, ok) ==
    IF ok THEN [b EXCEPT !.pc = "read_token", !.model = TRUE]
    ELSE [b EXCEPT !.pc = "failed"]

\* a faulty variant of run_bot_token: a missing credential becomes the empty token
run_bot_token_default(b, ok) == [b EXCEPT !.pc = "build_client", !.token = ok]

\* let token = env::var("DISCORD_TOKEN")?;
run_bot_token(b, ok) ==
    IF ok THEN [b EXCEPT !.pc = "build_client", !.token = TRUE]
    ELSE [b EXCEPT !.pc = "failed"]

\* Client::builder(&token, intents).event_handler(Handler { model }).await?;
run_bot_client(b, ok) ==
    IF ok THEN [b EXCEPT !.pc = "start_client"] ELSE [b EXCEPT !.pc = "failed"]

\* client.start().await?: the gateway runs, or the start fails
run_bot_start(b, ok) ==
    IF ok THEN [b EXCEPT !.pc = "running"] ELSE [b EXCEPT !.pc = "failed"]

-----------------------------------------------------------------------------
(* Inputs *)

\* a text of pad letters followed by tail
Text(pad, tail) == [i \in 1..pad |-> "a"] \o tail

\* the message texts of Spec: short ones (SpecSummary has the long ones)
EventContents == {<< >>, <<"e", "m">>, <<"a">>}

OTHER_ID == "1"
GUILD_OTHER == "2"

GuildIds == {None, Some(GUILD_TESTING), Some(GUILD_PROGDISC), Some(GUILD_OTHER)}
AuthorIds == {SELF_ID, OTHER_ID}

JsonTrue == <<"{", KeyVR, ":", "true", "}">>
JsonFalse == <<"{", KeyVR, ":", "false", "}">>

\* how many of the handler's reasons to discard a message hold of it
DiscardReasons(guild_id, content, bot, author_id) ==
    (IF guild_id \in {Some(GUILD_TESTING), Some(GUILD_PROGDISC)} THEN 0 ELSE 1)
        + (IF content = << >> THEN 1 ELSE 0)
        + (IF bot THEN 1 ELSE 0)
        + (IF author_id = SELF_ID THEN 1 ELSE 0)

\* the messages the gateway delivers as message e: those the handler keeps,
\* those it discards for one reason, and those it discards for every reason
InboundMessages(e) ==
    { Message(e, g, c, b, a) : <<g, c, b, a>> \in
        { x \in GuildIds \X EventContents \X BOOLEAN \X AuthorIds :
            DiscardReasons(x[1], x[2], x[3], x[4]) \in {0, 1, 4} } }

Ok(choices) == [ok |-> TRUE, err |-> "", choices |-> choices]
Err(e) == [ok |-> FALSE, err |-> e, choices |-> << >>]
Choice(content) == [content |-> content]

\* the model responses of Spec: one of each outcome of evaluate_message
EventResponses ==
    { Err("model error"), Ok(<< >>), Ok(<<Choice(None)>>), Ok(<<Choice(Some(<<"null">>))>>),
      Ok(<<Choice(Some(JsonFalse))>>), Ok(<<Choice(Some(JsonTrue))>>) }

-----------------------------------------------------------------------------
(* Spec: run_bot and the handler invocations *)

EvalIdle == [content |-> << >>, response |-> Err("")]
OutIdle == [kind |-> "none", value |-> FALSE, log |-> << >>]

\* run_tests at its start
TestsStart ==
    [ pc |-> "generate_model", cases |-> << >>, i |-> 1, responses |-> << >>,
      calls |-> << >>, times |-> 0, failed |-> {}, mispredictions |-> 0,
      results |-> None ]

OthersIdle ==
    /\ tests = TestsStart
    /\ evalIn = EvalIdle
    /\ evalOut = OutIdle
    /\ text = << >>
    /\ summary = None

Init ==
    /\ boot = BootStart
    /\ events = [e \in 1..NumEvents |-> IdleEvent]
    /\ http = {}
    /\ OthersIdle

GenerateModel ==
    /\ boot.pc = "generate_model"
    /\ \E ok \in BOOLEAN : boot' = run_bot_model(boot, ok)
    /\ UNCHANGED <<events, http, evalIn, evalOut, text, summary, tests>>

ReadToken ==
    /\ boot.pc = "read_token"
    /\ \E ok \in BOOLEAN : boot' = run_bot_token(boot, ok)
    /\ UNCHANGED <<events, http, evalIn, evalOut, text, summary, tests>>

BuildClient ==
    /\ boot.pc = "build_client"
    /\ \E ok \in BOOLEAN : boot' = run_bot_client(boot, ok)
    /\ UNCHANGED <<events, http, evalIn, evalOut, text, summary, tests>>

StartClient ==
    /\ boot.pc = "start_client"
    /\ \E ok \in BOOLEAN : boot' = run_bot_start(boot, ok)
    /\ UNCHANGED <<events, http, evalIn, evalOut, text, summary, tests>>

\* the gateway delivers a message: the handler runs to its first await
Receive(e) ==
    /\ boot.pc = "running"
    /\ events[e].pc = "idle"
    /\ \E msg \in InboundMessages(e), h \in BOOLEAN :
           events' = [events EXCEPT ![e] = message_begin(msg, h)]
    /\ UNCHANGED <<boot, http, evalIn, evalOut, text, summary, tests>>

\* the model call of e returns: the handler runs on to its next await or its end
ModelReturns(e) ==
    /\ model_call_returns(events, e)
    /\ \E response \in EventResponses : events' = resume_evaluate(events, e, response)
    /\ http' = http \cup Issued(e, events'[e])
    /\ UNCHANGED <<boot, evalIn, evalOut, text, summary, tests>>

\* the send_message call of e returns: the handler runs to its end
SendReturns(e) ==
    /\ events[e].pc = "sending"
    /\ \E ok \in BOOLEAN : events' = [events EXCEPT ![e] = message_after_send(events[e], ok)]
    /\ http' = http \cup Issued(e, events'[e])
    /\ UNCHANGED <<boot, evalIn, evalOut, text, summary, tests>>

Next ==
    \/ GenerateModel
    \/ ReadToken
    \/ BuildClient
    \/ StartClient
    \/ \E e \in 1..NumEvents : Receive(e)
    \/ \E e \in 1..NumEvents : ModelReturns(e)
    \/ \E e \in 1..NumEvents : SendReturns(e)

Spec == Init /\ [][Next]_vars

\* the runtime polls a task whose awaited call has returned
FairSpec ==
    /\ Spec
    /\ \A e \in 1..NumEvents : WF_vars(ModelReturns(e)) /\ WF_vars(SendReturns(e))

-----------------------------------------------------------------------------
(* SpecEval: evaluate_message on generated model responses *)

Values0 == {<<"true">>, <<"false">>, <<"1">>, <<KeyX>>, <<"[", "1", "]">>, <<"{", "}">>}
MemberTexts == {<<k, ":">> \o v : k \in StringTokens, v \in Values0}

RECURSIVE Joined(_, _)
\* the comma-separated lists of n items
Joined(items, n) ==
    IF n = 0 THEN {<< >>}
    ELSE IF n = 1 THEN items
    ELSE {a \o <<",">> \o b : a \in Joined(items, n - 1), b \in items}

ObjectTexts == UNION {{<<"{">> \o m \o <<"}">> : m \in Joined(MemberTexts, n)} : n \in 0..MaxMembers}
ArrayTexts == UNION {{<<"[">> \o m \o <<"]">> : m \in Joined(Values0, n)} : n \in 0..MaxMembers}
WellFormedTexts == Values0 \cup {<<"null">>} \cup ObjectTexts \cup ArrayTexts

Prefixes(t) == {SubSeq(t, 1, n) : n \in 0..Len(t)}
DropOne(t) == {SubSeq(t, 1, k - 1) \o SubSeq(t, k + 1, Len(t)) : k \in 1..Len(t)}

\* well-formed JSON texts, and what is left of them cut short, with one token
\* lost, or with one token too many
ResponseTexts == UNION {Prefixes(t) \cup DropOne(t) \cup {t \o <<"true">>} : t \in WellFormedTexts}

FewChoices == {Choice(None), Choice(Some(JsonTrue)), Choice(Some(JsonFalse)), Choice(Some(<<"null">>))}

EvalResponses ==
    {Err("model error"), Ok(<< >>)}
        \cup {Ok(<<Choice(Some(t))>>) : t \in ResponseTexts}
        \cup {Ok(<<c1, c2>>) : c1 \in FewChoices, c2 \in FewChoices}
        \cup {Ok(<<c>>) : c \in FewChoices}

EvalContents == {<< >>, <<"a">>}

MainIdle ==
    /\ tests = TestsStart
    /\ boot = BootStart
    /\ events = [e \in 1..NumEvents |-> IdleEvent]
    /\ http = {}

InitEval ==
    /\ MainIdle
    /\ evalIn \in [content : EvalContents, response : EvalResponses]
    /\ evalOut = OutIdle
    /\ text = << >>
    /\ summary = None

Evaluate ==
    /\ evalOut.kind = "none"
    /\ evalOut' = evaluate_message(evalIn.response, evalIn.content)
    /\ UNCHANGED <<boot, events, http, evalIn, text, summary, tests>>

NextEval == Evaluate

SpecEval == InitEval /\ [][NextEval]_vars

-----------------------------------------------------------------------------
(* SpecSummary: content_summary on generated message texts *)

CodePoints == {"a", "m", "z", "e", "r"}
Tails == UNION {[1..n -> CodePoints] : n \in 0..MaxTail}
Pads == {0, SummaryLimit - 1, SummaryLimit}
SummaryTexts == {Text(p, t) : p \in Pads, t \in Tails}

InitSummary ==
    /\ MainIdle
    /\ evalIn = EvalIdle
    /\ evalOut = OutIdle
    /\ text \in SummaryTexts
    /\ summary = None

Summarize ==
    /\ ~summary.some
    /\ summary' = Some(content_summary(text))
    /\ UNCHANGED <<boot, events, http, evalIn, evalOut, text, tests>>

NextSummary == Summarize

SpecSummary == InitSummary /\ [][NextSummary]_vars

-----------------------------------------------------------------------------
(* SpecTests: run_tests on generated datasets *)

TestCase(content, expected_result) == [content |-> content, expected_result |-> expected_result]
TestCases == {TestCase(c, x) : c \in EvalContents, x \in BOOLEAN}

\* the datasets messages.json may hold
Datasets == UNION {[1..n -> TestCases] : n \in 0..MaxCases}

\* the model's answers in the harness: a failed call, a negative, a positive
TestResponses == {Err("model error"), Ok(<<Choice(Some(JsonFalse))>>), Ok(<<Choice(Some(JsonTrue))>>)}

\* let model = generate_model().await?;
run_tests_model(t, ok) ==
    IF ok THEN [t EXCEPT !.pc = "parse_cases"] ELSE [t EXCEPT !.pc = "failed"]

\* let cases: Vec<TestCase> = serde_json::from_str(include_str!(..))?;
\* let mut times = vec![]; let mut mispredictions = 0;
run_tests_cases(t, parsed) ==
    IF parsed.some
    THEN [t EXCEPT !.pc = "loop", !.cases = parsed.val, !.i = 1,
                   !.calls = [j \in 1..Len(parsed.val) |-> 0],
                   !.times = 0, !.mispredictions = 0]
    ELSE [t EXCEPT !.pc = "failed"]

\* a faulty variant of run_tests_case: the loop ends at the first misprediction
run_tests_case_stop(t, response) ==
    LET case == t.cases[t.i]
        r == evaluate_message(response, case.content)
    IN  IF r.kind = "panic" THEN [t EXCEPT !.pc = "panicked"]
        ELSE IF case.expected_result # r.value
        THEN [t EXCEPT !.calls[t.i] = @ + 1, !.responses = Append(@, response),
                       !.times = @ + 1, !.failed = @ \cup {t.i},
                       !.mispredictions = @ + 1, !.i = Len(t.cases) + 1]
        ELSE [t EXCEPT !.calls[t.i] = @ + 1, !.responses = Append(@, response),
                       !.times = @ + 1, !.i = @ + 1]

\* one turn of `for case in cases.iter()`, the model answering response
run_tests_case(t, response) ==
    LET case == t.cases[t.i]
        r == evaluate_message(response, case.content)
    IN  IF r.kind = "panic" THEN [t EXCEPT !.pc = "panicked"]
        ELSE IF case.expected_result # r.value
        THEN [t EXCEPT !.calls[t.i] = @ + 1, !.responses = Append(@, response),
                       !.times = @ + 1, !.failed = @ \cup {t.i},
                       !.mispredictions = @ + 1, !.i = @ + 1]
        ELSE [t EXCEPT !.calls[t.i] = @ + 1, !.responses = Append(@, response),
                       !.times = @ + 1, !.i = @ + 1]

\* after the loop: println!("results: {}/{}", cases.len() - mispredictions,
\* cases.len()); assert_eq!(mispredictions, 0); Ok(())
run_tests_report(t) ==
    [t EXCEPT !.results = Some(<<Len(t.cases) - t.mispredictions, Len(t.cases)>>),
              !.pc = IF t.mispredictions = 0 THEN "passed" ELSE "assert failed"]

InitTests ==
    /\ boot = BootStart
    /\ events = [e \in 1..NumEvents |-> IdleEvent]
    /\ http = {}
    /\ evalIn = EvalIdle
    /\ evalOut = OutIdle
    /\ text = << >>
    /\ summary = None
    /\ tests = TestsStart

TestsGenerateModel ==
    /\ tests.pc = "generate_model"
    /\ \E ok \in BOOLEAN : tests' = run_tests_model(tests, ok)
    /\ UNCHANGED <<boot, events, http, evalIn, evalOut, text, summary>>

TestsParseCases ==
    /\ tests.pc = "parse_cases"
    /\ \E parsed \in {None} \cup {Some(d) : d \in Datasets} : tests' = run_tests_cases(tests, parsed)
    /\ UNCHANGED <<boot, events, http, evalIn, evalOut, text, summary>>

TestsCase ==
    /\ tests.pc = "loop"
    /\ tests.i <= Len(tests.cases)
    /\ \E response \in TestResponses : tests' = run_tests_case(tests, response)
    /\ UNCHANGED <<boot, events, http, evalIn, evalOut, text, summary>>

TestsReport ==
    /\ tests.pc = "loop"
    /\ tests.i > Len(tests.cases)
    /\ tests' = run_tests_report(tests)
    /\ UNCHANGED <<boot, events, http, evalIn, evalOut, text, summary>>

NextTests ==
    \/ TestsGenerateModel
    \/ TestsParseCases
    \/ TestsCase
    \/ TestsReport

SpecTests == InitTests /\ [][NextTests]_vars

-----------------------------------------------------------------------------
(* Claims *)

Events == 1..NumEvents

\* the events the claims call filtered, in the claims' own terms
Discardable(msg) ==
    \/ ~msg.guild_id.some
    \/ msg.content = << >>
    \/ msg.bot
    \/ msg.author_id = SELF_ID
    \/ msg.guild_id.val \notin {"145457131640848384", "238666723824238602"}

ReportsBy(e) == {r \in http : r.by = e}

\* what evaluate_message returned to the handler of ev
Verdict(ev) == evaluate_message(ev.response.val, ev.msg.content).value

\* C1: an event with no guild id, empty content, a bot author, the author
\* SELF_ID or a guild outside the channel mapping never causes a call of
\* evaluate_message nor a report: both counts of the event stay zero.
C1_FilteredNeverClassified ==
    \A e \in Events :
        (events[e].pc # "idle" /\ Discardable(events[e].msg))
            => /\ events[e].evalCalls = 0
               /\ events[e].sendCalls = 0
               /\ ReportsBy(e) = {}
               /\ events[e].pc = "done"

\* a message of a mapped guild with content, discarded only for its bot author
C1_Witness ==
    \E e \in Events :
        /\ events[e].pc = "done"
        /\ events[e].msg.bot
        /\ events[e].msg.guild_id.some
        /\ events[e].msg.guild_id.val = GUILD_TESTING
        /\ events[e].msg.content # << >>
        /\ events[e].msg.author_id # SELF_ID
        /\ events[e].evalCalls = 0

\* C2: for an event that passes every filter a report is sent if and only if
\* evaluate_message returned true: one send attempt on true, none on false.
C2_ReportIffVerdict ==
    \A e \in Events :
        (~Discardable(events[e].msg) /\ events[e].pc \in {"sending", "done"})
            => /\ events[e].response.some
               /\ events[e].evalCalls = 1
               /\ IF Verdict(events[e])
                  THEN events[e].sendCalls = 1 /\ Cardinality(ReportsBy(e)) = 1
                  ELSE events[e].sendCalls = 0 /\ ReportsBy(e) = {}

\* one event handled with a true verdict and one report, another with a false
\* verdict and none
C2_Witness ==
    \E e, f \in Events :
        /\ events[e].pc = "done" /\ events[f].pc = "done"
        /\ ~Discardable(events[e].msg) /\ ~Discardable(events[f].msg)
        /\ events[e].response = Some(Ok(<<Choice(Some(JsonTrue))>>))
        /\ Cardinality(ReportsBy(e)) = 1
        /\ events[f].response = Some(Ok(<<Choice(Some(JsonFalse))>>))
        /\ ReportsBy(f) = {}

\* a text whose brackets do not pair up is no JSON text
Unbalanced(t) ==
    \/ Cardinality({i \in 1..Len(t) : t[i] = "{"}) # Cardinality({i \in 1..Len(t) : t[i] = "}"})
    \/ Cardinality({i \in 1..Len(t) : t[i] = "["}) # Cardinality({i \in 1..Len(t) : t[i] = "]"})

\* the failure outcomes of the model call that C3 lists
FailureOutcome(response) ==
    \/ ~response.ok
    \/ Len(response.choices) = 0
    \/ ~response.choices[1].content.some
    \/ response.choices[1].content.val = << >>
    \/ Unbalanced(response.choices[1].content.val)
    \/ response.choices[1].content.val[1] \notin {"{", "["}
    \/ ~from_str_Evaluation(response.choices[1].content.val).ok

\* C3: evaluate_message returns false, and neither panics nor fails, when the
\* model call returns an error, the response has no choices, the first choice
\* has no or empty content, or the content does not parse as an Evaluation;
\* for every content string, the empty one included.
C3_FailureReturnsFalse ==
    /\ evalOut.kind \in {"none", "return"}
    /\ (evalOut.kind # "none" /\ FailureOutcome(evalIn.response))
           => (evalOut.kind = "return" /\ evalOut.value = FALSE)

\* the empty string classified, the response without choices
C3_Witness ==
    /\ evalOut.kind = "return"
    /\ evalIn.content = << >>
    /\ evalIn.response.ok
    /\ Len(evalIn.response.choices) = 0
    /\ evalOut.value = FALSE

\* the texts that conform to the schema of the request: an object whose only
\* property is the boolean violates_rules
ConformsToSchema(t) == t \in {JsonTrue, JsonFalse}

\* C4: evaluate_message returns true only if the content of the response
\* conforms exactly to the schema {"violates_rules": bool}, with no other
\* property, and violates_rules is true.
C4_TrueOnlyIfConforms ==
    (evalOut.kind = "return" /\ evalOut.value)
        => /\ evalIn.response.ok
           /\ Len(evalIn.response.choices) > 0
           /\ evalIn.response.choices[1].content.some
           /\ ConformsToSchema(evalIn.response.choices[1].content.val)
           /\ evalIn.response.choices[1].content.val = JsonTrue

\* C5: after any outcome of the delivery the event is handled, with exactly
\* one send attempt made; a failed delivery is logged, not retried, and does
\* not panic.
C5_DeliveryFailureHandledOnce ==
    \A e \in Events :
        /\ events[e].pc # "panicked"
        /\ events[e].sendCalls <= 1
        /\ events[e].sendResult # "none"
               => /\ events[e].pc = "done"
                  /\ events[e].sendCalls = 1
                  /\ Cardinality(ReportsBy(e)) = 1
        /\ events[e].sendResult = "err"
               => events[e].log[Len(events[e].log)] = LogEntry("error", "failed to report", <<Arg("err", "err")>>)

\* an event whose delivery failed, handled
C5_Witness ==
    \E e \in Events :
        /\ events[e].pc = "done"
        /\ events[e].sendResult = "err"
        /\ events[e].sendCalls = 1

\* the static mapping as C6 states it
MappedChannel(guild_id) ==
    CASE guild_id = "145457131640848384" -> "335451227028717568"
      [] guild_id = "238666723824238602" -> "1315930244682743839"
      [] OTHER -> "no channel"

\* C6: a report goes to the channel the static mapping gives the guild of its
\* own event and carries that event's own truncated text and permalink; no
\* report goes to a channel outside the mapping, and none carries the text,
\* link or destination of another event.
C6_ReportOfOwnEvent ==
    \A r \in http :
        LET m == events[r.by].msg IN
        /\ m.guild_id.some
        /\ r.report.channel = MappedChannel(m.guild_id.val)
        /\ r.report.channel \in {"335451227028717568", "1315930244682743839"}
        /\ r.report.summary = content_summary(m.content)
        /\ Len(m.content) <= SummaryLimit => r.report.summary = m.content
        /\ r.report.link = <<"https://discord.com/channels", m.guild_id.val, r.by>>
        /\ \A f \in Events :
               (f # r.by /\ events[f].msg.guild_id.some) => r.report.link # link(events[f].msg)

\* two events in different guilds with different texts, both reported
C6_Witness ==
    \E r1, r2 \in http :
        /\ r1.by # r2.by
        /\ r1.report.channel = "335451227028717568"
        /\ r2.report.channel = "1315930244682743839"
        /\ r1.report.summary # r2.report.summary

\* the positions of text at which a grapheme cluster starts
ClusterStarts(s) == {i \in 1..Len(s) : i = 1 \/ BreakBefore(s, i)}

Min(a, b) == IF a < b THEN a ELSE b

\* C7: the summary is the prefix of the text made of its first min(n, 512)
\* grapheme clusters: no cluster is cut, and a text of at most 512 clusters
\* is reported unchanged.
C7_SummaryIsClusterPrefix ==
    summary.some =>
        LET s == summary.val
            starts == ClusterStarts(text)
            n == Cardinality(starts)
        IN  /\ Len(s) <= Len(text)
            /\ s = SubSeq(text, 1, Len(s))
            /\ Cardinality({i \in starts : i <= Len(s)}) = Min(n, 512)
            /\ Len(s) < Len(text) => (Len(s) + 1) \in starts
            /\ n <= 512 => s = text

\* a text of more than 512 clusters cut after a cluster of several code points
C7_Witness ==
    /\ summary.some
    /\ Len(summary.val) < Len(text)
    /\ Len(summary.val) > 512
    /\ ~BreakBefore(text, Len(summary.val))

\* the outcome of a handled event: discarded, classified or reported
Outcome(ev) ==
    IF ev.evalCalls = 0 THEN "discarded"
    ELSE IF ev.sendCalls = 0 THEN "classified"
    ELSE "reported"

\* the outcome an event's own fields and the response to its own call give it
OwnOutcome(ev) ==
    IF Discardable(ev.msg) THEN "discarded"
    ELSE IF ev.response.some /\ Verdict(ev) THEN "reported"
    ELSE "classified"

\* a step of one invocation leaves every other invocation as it was
StepsOneEvent ==
    \A e, f \in Events :
        (e # f /\ events'[e] # events[e])
            => /\ events'[f] = events[f]
               /\ ReportsBy(f)' = ReportsBy(f)

HandledByOwnFields ==
    \A e \in Events :
        events[e].pc = "done"
            => /\ Outcome(events[e]) = OwnOutcome(events[e])
               /\ Outcome(events[e]) # "discarded" => events[e].response.some

\* C8: no error crosses event boundaries: under every interleaving the
\* outcome of an event (discarded, classified without report, reported)
\* depends only on its own fields and on the response to its own model call,
\* and a failure in one event's handling changes nothing of another's.
C8_NoErrorCrossesEvents == []HandledByOwnFields /\ [][StepsOneEvent]_vars

\* the model call of one event failed and the delivery of another's report
\* failed: the first was classified without a report, the second reported
C8_Witness ==
    \E e, f \in Events :
        /\ e # f
        /\ events[e].pc = "done" /\ events[f].pc = "done"
        /\ events[e].response = Some(Err("model error"))
        /\ Outcome(events[e]) = "classified"
        /\ Outcome(events[f]) = "reported"
        /\ events[f].sendResult = "err"

\* C9: an event whose classification call never returns stalls alone: under
\* fair scheduling every event whose own model call and send call return is
\* eventually handled, however many other events are stuck.
C9_OthersEventuallyHandled ==
    \A e \in Events :
        (events[e].pc \in {"evaluating", "sending"} /\ ~events[e].hung)
            ~> (events[e].pc = "done")

\* every event but the last is stuck in classification, the last was
\* classified and reported
C9_Witness ==
    /\ \A e \in 1..(NumEvents - 1) : events[e].pc = "evaluating" /\ events[e].hung
    /\ events[NumEvents].pc = "done"
    /\ events[NumEvents].sendResult = "ok"

\* C10: configuration errors are fatal at start: the client is built and
\* started, and a message handled, only when both the model load and the
\* read of DISCORD_TOKEN have succeeded; otherwise run_bot has returned an
\* error and no message event is ever handled.
C10_ConfiguredBeforeHandling ==
    /\ boot.pc \in {"build_client", "start_client", "running"} => (boot.model /\ boot.token)
    /\ (\E e \in Events : events[e].pc # "idle") => (boot.pc = "running" /\ boot.model /\ boot.token)
    /\ (boot.pc = "failed" /\ ~(boot.model /\ boot.token)) => \A e \in Events : events[e] = IdleEvent

\* the model loaded, the credential missing: run_bot has failed, nothing handled
C10_Witness ==
    /\ boot.pc = "failed"
    /\ boot.model
    /\ ~boot.token
    /\ \A e \in Events : events[e].pc = "idle"

\* the outcome of the model call, by the place where evaluate_message decides
ResponseKind(response) ==
    IF ~response.ok THEN "call failure"
    ELSE IF Len(response.choices) = 0 THEN "empty choice list"
    ELSE IF ~response.choices[1].content.some THEN "missing content"
    ELSE IF ~from_str_Evaluation(response.choices[1].content.val).ok THEN "parse failure"
    ELSE "verdict"

FailureKinds == {"call failure", "empty choice list", "missing content", "parse failure"}

\* the message of the error entry of each failure kind
FailureMessage(kind) ==
    CASE kind = "call failure" -> "failed to run llm"
      [] kind = "empty choice list" -> "llm returned zero choices"
      [] kind = "missing content" -> "llm returned choice without content"
      [] kind = "parse failure" -> "failed to parse llm response content"

ErrorEntries(log) == {i \in 1..Len(log) : log[i].level = "error"}

\* C11: each failure outcome of evaluate_message (call failure, empty choice
\* list, missing content, parse failure) writes exactly one error-level log
\* entry, a different one for each kind, and a genuine verdict (true or
\* false) writes none: the log tells an inconclusive result from a negative.
C11_OneDistinctErrorPerFailure ==
    /\ Cardinality({FailureMessage(k) : k \in FailureKinds}) = 4
    /\ evalOut.kind = "return" =>
           LET kind == ResponseKind(evalIn.response) IN
           IF kind \in FailureKinds
           THEN /\ Cardinality(ErrorEntries(evalOut.log)) = 1
                /\ Len(evalOut.log) = 1
                /\ evalOut.log[1].message = FailureMessage(kind)
                /\ evalOut.value = FALSE
           ELSE ErrorEntries(evalOut.log) = {}

\* a response whose content does not parse, answered false with one error entry
C11_Witness ==
    /\ evalOut.kind = "return"
    /\ ResponseKind(evalIn.response) = "parse failure"
    /\ evalIn.response.choices[1].content.val = <<"{", KeyVR, ":", "1", "}">>
    /\ Cardinality(ErrorEntries(evalOut.log)) = 1

\* the entry names the content classified and the detail of the error
HasContext(entry, content) ==
    /\ \E i \in 1..Len(entry.args) : entry.args[i].what = "content" /\ entry.args[i].val = content
    /\ \E i \in 1..Len(entry.args) : entry.args[i].what = "err"

\* C12: for each of the four failure outcomes of evaluate_message the error
\* log entry holds the message content that was classified and the error
\* detail.
C12_FailureLogHasContext ==
    (evalOut.kind = "return" /\ ResponseKind(evalIn.response) \in FailureKinds)
        => \E i \in ErrorEntries(evalOut.log) : HasContext(evalOut.log[i], evalIn.content)

\* the cases of the dataset whose result, as evaluate_message returned it,
\* differs from the expected one
Mispredicted(t) ==
    {j \in 1..Len(t.responses) :
        evaluate_message(t.responses[j], t.cases[j].content).value # t.cases[j].expected_result}

\* C13: a run of run_tests that has its model and its dataset calls
\* evaluate_message exactly once on every case, a misprediction not ending the
\* loop; counts as mispredictions exactly the cases whose result differs from
\* expected_result; reports total minus mispredictions, with 0 <=
\* mispredictions <= total; and passes if and only if the count is zero.
C13_HarnessCountsEveryCase ==
    /\ \A j \in 1..Len(tests.calls) : tests.calls[j] <= 1
    /\ tests.pc \in {"loop", "passed", "assert failed"} =>
           /\ tests.mispredictions = Cardinality(Mispredicted(tests))
           /\ tests.failed = Mispredicted(tests)
           /\ 0 <= tests.mispredictions /\ tests.mispredictions <= Len(tests.cases)
           /\ \A j \in 1..Len(tests.cases) : tests.calls[j] = (IF j < tests.i THEN 1 ELSE 0)
    /\ tests.pc \in {"passed", "assert failed"} =>
           /\ \A j \in 1..Len(tests.cases) : tests.calls[j] = 1
           /\ Len(tests.responses) = Len(tests.cases)
           /\ tests.times = Len(tests.cases)
           /\ tests.results = Some(<<Len(tests.cases) - Cardinality(Mispredicted(tests)), Len(tests.cases)>>)
           /\ (tests.pc = "passed") <=> (Mispredicted(tests) = {})

\* the first case mispredicted, the cases after it evaluated all the same,
\* and the harness failed
C13_Witness ==
    /\ tests.pc = "assert failed"
    /\ Len(tests.cases) >= 2
    /\ 1 \in tests.failed
    /\ \A j \in 1..Len(tests.cases) : tests.calls[j] = 1
    /\ tests.mispredictions < Len(tests.cases)

\* the events that passed the filters and whose classification returned true
PassedWithTrueVerdict ==
    {e \in Events :
        /\ events[e].pc # "idle"
        /\ ~Discardable(events[e].msg)
        /\ events[e].response.some
        /\ Verdict(events[e])}

\* in every state: at most one call and one send an event, a send only after
\* the event's own call returned true, and as many sends as such events
ClassifiedBeforeReported ==
    /\ \A e \in Events :
           /\ events[e].evalCalls <= 1
           /\ events[e].sendCalls <= 1
           /\ events[e].evalCalls = 1 => ~Discardable(events[e].msg)
           /\ events[e].sendCalls = 1 => (events[e].evalCalls = 1 /\ e \in PassedWithTrueVerdict)
           /\ Cardinality(ReportsBy(e)) = events[e].sendCalls
    /\ Cardinality(http) = Cardinality(PassedWithTrueVerdict)

\* in every step: the call is made when the message arrives and passes the
\* filters, and the send when that call has returned
FilterClassifyReport ==
    \A e \in Events :
        /\ events'[e].evalCalls > events[e].evalCalls
               => (events[e].pc = "idle" /\ events'[e].pc = "evaluating")
        /\ events'[e].sendCalls > events[e].sendCalls
               => /\ events[e].pc = "evaluating"
                  /\ events[e].evalCalls = 1
                  /\ ~events[e].response.some
                  /\ events'[e].response.some
                  /\ events'[e].pc = "sending"

\* C15: the steps of one event come in the order filter, classify, report:
\* a send attempt follows a completed evaluate_message call of the same event
\* that returned true, an event causes at most one call and one send, and no
\* state is kept between events: the sends made are as many as the events
\* that passed the filters and got a true verdict, a repeated identical
\* message being classified and reported again.
C15_FilterClassifyReport == []ClassifiedBeforeReported /\ [][FilterClassifyReport]_vars

\* the same text from the same guild twice, classified twice and reported twice
C15_Witness ==
    \E e, f \in Events :
        /\ e # f
        /\ events[e].msg.guild_id.some /\ events[f].msg.guild_id.some
        /\ events[e].msg.guild_id.val = events[f].msg.guild_id.val
        /\ events[e].msg.content = events[f].msg.content
        /\ events[e].evalCalls = 1 /\ events[f].evalCalls = 1
        /\ events[e].pc = "done" /\ events[f].pc = "done"
        /\ ReportsBy(e) # {} /\ ReportsBy(f) # {}

\* C16: the handler puts no mutual exclusion on the classification: a message
\* that arrives while a call is in flight starts its own call at once, and of
\* two calls in flight either may return first; so two evaluate_message calls
\* on the shared model are in flight together.
C16_NoMutualExclusion ==
    \A e, f \in Events :
        (e # f /\ events[f].pc = "evaluating")
            => /\ (boot.pc = "running" /\ events[e].pc = "idle")
                      => ENABLED (Receive(e) /\ events'[e].pc = "evaluating")
               /\ (events[e].pc = "evaluating" /\ ~events[e].hung)
                      => ENABLED ModelReturns(e)

\* two calls in flight at the same time
C16_Witness ==
    \E e, f \in Events :
        /\ e < f
        /\ events[e].pc = "evaluating" /\ events[f].pc = "evaluating"
        /\ ~events[e].hung /\ ~events[f].hung

\* C17: evaluate_message decides from the first choice only: with several
\* choices the result is that of choices[0], and a later choice that says
\* violates_rules true does not make the result true when the first has no
\* content, does not parse or says false.
C17_FirstChoiceDecides ==
    (evalOut.kind = "return" /\ evalIn.response.ok /\ Len(evalIn.response.choices) >= 1)
        => LET first == evalIn.response.choices[1].content IN
           /\ evalOut.value <=> (first.some /\ from_str_Evaluation(first.val).ok
                                    /\ from_str_Evaluation(first.val).violates_rules)
           /\ first \in {None, Some(JsonFalse), Some(<<"null">>)} => ~evalOut.value
           /\ evalOut = evaluate_message(Ok(<<evalIn.response.choices[1]>>), evalIn.content)

\* the first choice says false, the second true: the result is false
C17_Witness ==
    /\ evalOut.kind = "return"
    /\ evalIn.response = Ok(<<Choice(Some(JsonFalse)), Choice(Some(JsonTrue))>>)
    /\ evalOut.value = FALSE

====
